---- MODULE Spec2Model ----
(***************************************************************************)
(* Model of internal/sse/listener.go: Listener.ListenWithOptions, its      *)
(* reader goroutine, the reminder ticker, the deadline of the derived      *)
(* context and the cancellation of the parent context.                     *)
(*                                                                         *)
(* Time is a discrete clock.  An optional value (a *Event, an error) is a  *)
(* sequence of length 0 (nil) or 1.  A channel of capacity 1 is a sequence *)
(* of length at most 1.  A select with several ready cases takes any of    *)
(* them; a goroutine parked in a select is resumed by the first sender.    *)
(***************************************************************************)
EXTENDS Integers, Sequences, FiniteSets, TLC

\* ---------------------------------------------------------------- bounds
MaxTimeout == 2
MaxInterval == 2
MaxLines == 2

\* The clock runs one unit past the largest deadline.
MaxTime == MaxTimeout + 1

\* ------------------------------------------------------ program constants
StatusOK == 200
StatusUnauthorized == 401
StatusForbidden == 403

\* --------------------------------------------------------------- values
Durations == -1 .. MaxTimeout
Intervals == -1 .. MaxInterval

\* Status codes a server may answer with.
Statuses == {200, 204, 401, 500}

StatusText(code) ==
    CASE code = 200 -> "200 OK"
      [] code = 204 -> "204 No Content"
      [] code = 401 -> "401 Unauthorized"
      [] code = 500 -> "500 Internal Server Error"

\* Errors are records: a message and what the message wraps or carries.
Err(msg, detail) == [msg |-> msg, detail |-> detail]

ErrCreateRequest == Err("failed to create request", "invalid URL")
ErrTimeout == Err("timeout waiting for response", "")
ErrCancelled == Err("cancelled", "")
ErrConnectionFailed(cause) == Err("connection failed", cause)
ErrUnauthorized == Err("unauthorized: invalid API key", "")
ErrAPI(code) == Err("API error", StatusText(code))
ErrStreamClosed == Err("connection closed without response", "")

\* What Client.Do fails with when the context is not the cause.
DoFailures == {"connection refused", "i/o timeout"}

\* What scanner.Err() reports: the context's error after the deadline or a
\* cancellation tore the connection down, a read on the closed body, a
\* network failure, or a line over the scanner's token size.
ScanDeadline == Err("context deadline exceeded", "")
ScanCanceled == Err("context canceled", "")
ScanClosedBody == Err("http: read on closed response body", "")
ScanReset == Err("connection reset by peer", "")
ScanTooLong == Err("bufio.Scanner: token too long", "")

\* The decoded fields of an Event that the listener and its caller read.
Event(type, from, content) == [Type |-> type, From |-> from, Content |-> content]

ZeroEvent == Event("", "", "")

\* The JSON payloads of data: lines.  A payload is valid JSON for an Event
\* or not; a valid one carries the fields it sets.
Payload(valid, ev) == [valid |-> valid, ev |-> ev]

Payloads ==
    { Payload(FALSE, ZeroEvent),
      Payload(TRUE, Event("connected", "", "")),
      Payload(TRUE, Event("message", "web", "")),
      Payload(TRUE, Event("message", "web", "yes")),
      Payload(TRUE, Event("message", "sms", "no")) }

\* A stream line: its prefix, the text after an event: prefix and the JSON
\* payload after a data: prefix.
Line(prefix, text, data) == [prefix |-> prefix, text |-> text, data |-> data]

NoPayload == Payload(FALSE, ZeroEvent)

Lines ==
    { Line("", "", NoPayload), Line(":", "", NoPayload),
      Line("retry:", "", NoPayload),
      Line("event:", "connected", NoPayload),
      Line("event:", "message", NoPayload) }
    \cup { Line("data:", "", p) : p \in Payloads }

NoLine == Line("none", "", NoPayload)

HasPrefix(line, prefix) == line.prefix = prefix

\* json.Unmarshal into a zero Event: an error, or the decoded event.
Unmarshal(data) ==
    IF data.valid THEN [err |-> FALSE, event |-> data.ev]
    ELSE [err |-> TRUE, event |-> ZeroEvent]

\* ------------------------------------------------------- cmd/main.go: run

\* Exit codes.
exitSuccess == 0
exitBadArgs == 1
exitAPIError == 2
exitTimeout == 3
exitSendFailed == 4

\* The words run looks for that occur in a text of an error.
WordsIn(text) ==
    CASE text \in { "timeout waiting for response", "i/o timeout" }
           -> { "timeout" }
      [] text = "cancelled" -> { "cancelled" }
      [] OTHER -> { }

\* strings.Contains(err.Error(), word): the text of an error is its message
\* followed, when it wraps or carries something, by ": " and that text.
Contains(err, word) == word \in WordsIn(err.msg) \cup WordsIn(err.detail)

\* Lines 233-246: the exit code of a waiting run, from what
\* ListenWithOptions returned.
ListenExit(r) ==
    IF r.err = << >> THEN exitSuccess
    ELSE IF Contains(r.err[1], "timeout") THEN exitTimeout
    ELSE IF Contains(r.err[1], "cancelled") THEN exitSuccess
    ELSE exitAPIError

\* The command line of a message-sending run: the flags of lines 60-71 that
\* decide what run does.
ReminderTexts == { "", "0", "0s", "2m", "-1m", "bogus" }
Flags ==
    [sms : BOOLEAN, whatsapp : BOOLEAN, msg : { "", "done", "done\\!" },
     noWait : BOOLEAN, noHint : BOOLEAN, help : BOOLEAN, version : BOOLEAN,
     reminder : ReminderTexts, timeout : { 1, MaxTimeout }]

\* No command line: the listener is called by another caller than run.
NoFlags ==
    [sms |-> FALSE, whatsapp |-> FALSE, msg |-> "", noWait |-> FALSE,
     noHint |-> FALSE, help |-> FALSE, version |-> FALSE, reminder |-> "",
     timeout |-> 1]

\* time.ParseDuration, in minutes: << d >> when the text parses.
ParseDuration(text) ==
    CASE text \in { "0", "0s" } -> << 0 >>
      [] text = "2m" -> << 2 >>
      [] text = "15m" -> << 15 >>
      [] text = "-1m" -> << -1 >>
      [] OTHER -> << >>

\* The reminder_interval values of a config file; "" is an absent field.
FileReminders == { "", "0", "2m", "bogus" }

\* config.go lines 82-85: the default reminder interval.
DefaultReminder(text) == IF text = "" THEN "15m" ELSE text

\* config.Load: << cfg >> or, when the file is missing, unreadable or has no
\* API key, nothing and an error.
Loads == { << >> } \cup { << [ReminderInterval |-> DefaultReminder(t)] >> :
                            t \in FileReminders }

\* The config file run finds: none that Load accepts, or << t >> with t its
\* reminder_interval.
ConfigFiles == { << >> } \cup { << t >> : t \in FileReminders }

\* config.Load of a config file.
Load(file) ==
    IF file = << >> THEN << >>
    ELSE << [ReminderInterval |-> DefaultReminder(file[1])] >>

\* What SendSMS and SendWhatsApp return: an error and no response, or a
\* response with the session id the server generated.
SendResults ==
    { [err |-> TRUE, resp |-> << >>] } \cup
    { [err |-> FALSE, resp |-> << [SessionID |-> id] >>] :
        id \in { "", "s1", "s2" } }

\* The state of run before its first step. exit is << code >> once run has
\* returned; out is the sequence of reports printed; file is the config file
\* Load was called on.
RunStart ==
    [pc |-> "flags", exit |-> << >>, loads |-> 0, file |-> << >>,
     cfg |-> << >>,
     reminderInterval |-> 0, sent |-> << >>, sendErr |-> FALSE,
     resp |-> << >>, sessionID |-> "",
     out |-> << >>, sigHandler |-> FALSE, listenCalls |-> << >>]

\* run is not the caller.
RunIdle == [RunStart EXCEPT !.pc = "idle"]

\* ------------------------------------------- api/client.go: ValidateKey

\* The status codes a server answers the validation request with.
KeyStatuses == { 200, 204, 400, 401, 403, 404, 429, 500, 503 }

\* How Client.Do of the validation request fails; the last is the 5 second
\* timeout of the client of line 164.
KeyDoFailures == DoFailures \cup { "Client.Timeout exceeded" }

\* The callers of ValidateKey: cmdLogin (main.go:303) and cmdStatus
\* (main.go:376).
KeyCallers == { "login", "status" }

\* A validation before its first step, for a Client with the given key and
\* a BaseURL that makes a valid request URL or not. status is the status of
\* the response once the request has completed, returned is << err >> once
\* ValidateKey has returned (<< << >> >> for nil) and report what the
\* caller printed.
KeyStart(caller, key, ok) ==
    [pc |-> "start", caller |-> caller, key |-> key, urlOK |-> ok,
     status |-> 0, returned |-> << >>, report |-> "", exit |-> << >>]

\* No validation is running.
KeyIdle == [KeyStart("", "", TRUE) EXCEPT !.pc = "idle"]

VARIABLES
    opts,           \* ListenOptions of the call
    viaListen,      \* the call came through the Listen wrapper
    urlOK,          \* http.NewRequestWithContext accepts the URL
    now,            \* the clock
    startTime,      \* time.Now() at the start of the call
    ctxErr,         \* ctx.Err() of the derived context
    parentCancelled,\* the parent context was cancelled by the caller
    pc,             \* where the calling goroutine is
    recv,           \* the select case a parked caller was resumed with
    result,         \* the returned (event, error) pair
    status,         \* resp.StatusCode, 0 before a response
    doErr,          \* the error Client.Do returned
    requests,       \* HTTP requests issued
    tickerAt,       \* when the ticker was created, -1 if none
    tickerStopped,  \* reminderTicker.Stop() ran
    reminderChan,   \* ticks buffered in the ticker's channel (0 or 1)
    bodyClosed,     \* resp.Body.Close() ran
    rpc,            \* where the reader goroutine is
    line,           \* the line the reader decoded last
    linesRead,      \* lines the scanner returned
    eventChan,
    errChan,
    onEventCalls,   \* arguments of the OnEvent invocations
    reminderCalls,  \* number of OnReminder invocations
    lastReminder,   \* <<elapsed, remaining>> of the last OnReminder invocation
    readEnd,        \* how scanner.Scan() ended the reader's loop
    readLive,       \* the deliverable record was read with the context live
    skipped,        \* malformed data: lines skipped so far
    lag,            \* time passed while the caller had a step to take
    flags,          \* the command line of run
    run,            \* where run is and what it has done
    listener,       \* the Listener's BaseURL and APIKey
    calls,          \* calls that have returned on this Listener
    prev,           \* what the previous call on this Listener returned
    vk              \* where a key validation is and what it has done

vars == << opts, viaListen, urlOK, now, startTime, ctxErr, parentCancelled, pc,
           recv, result, status, doErr, requests, tickerAt, tickerStopped,
           reminderChan, bodyClosed, rpc, line, linesRead, eventChan, errChan,
           onEventCalls, reminderCalls, lastReminder, readEnd, readLive,
           skipped, lag, flags, run, listener, calls, prev, vk >>

seqVars == << listener, calls, prev >>
keyVars == << vk >>

runVars == << flags, run >>
callerVars == << pc, recv, result >>
readerVars == << rpc, line, linesRead, readEnd, readLive, skipped >>
inputVars == << opts, viaListen, urlOK, startTime >>
connVars == << status, doErr, requests >>
cbVars == << onEventCalls, reminderCalls, lastReminder >>

NoRecv == [case |-> "none", val |-> << >>]
NoResult == [event |-> << >>, err |-> << >>]

\* Listen(ctx, sessionID, timeout, onEvent): the options it passes on.
Listen(timeout, onEvent) ==
    [Timeout |-> timeout, ReminderInterval |-> 0,
     OnEvent |-> onEvent, OnReminder |-> FALSE]

ListenOptions ==
    [Timeout : Durations, ReminderInterval : Intervals,
     OnEvent : BOOLEAN, OnReminder : BOOLEAN]

\* The state of a call that has not taken its first step.
Fresh ==
    /\ now = 0
    /\ startTime = 0
    /\ ctxErr = "none"
    /\ parentCancelled = FALSE
    /\ pc = "start"
    /\ recv = NoRecv
    /\ result = NoResult
    /\ status = 0
    /\ doErr = ""
    /\ requests = 0
    /\ tickerAt = -1
    /\ tickerStopped = FALSE
    /\ reminderChan = 0
    /\ bodyClosed = FALSE
    /\ rpc = "notstarted"
    /\ line = NoLine
    /\ linesRead = 0
    /\ eventChan = << >>
    /\ errChan = << >>
    /\ onEventCalls = << >>
    /\ reminderCalls = 0
    /\ lastReminder = << 0, 0 >>
    /\ readEnd = "none"
    /\ readLive = FALSE
    /\ skipped = 0
    /\ lag = FALSE

\* NewListener(baseURL, apiKey), lines 29-38.
NewListener(baseURL, apiKey) == [BaseURL |-> baseURL, APIKey |-> apiKey]

\* What is remembered of a returned call: its event, and whether it failed.
Summary(r) == [event |-> r.event, failed |-> r.err # << >>]

\* A Listener on which no call has returned yet.
FirstCall ==
    /\ listener = NewListener("https://chatbridge.net", "key")
    /\ calls = 0
    /\ prev = Summary(NoResult)

Init ==
    /\ viaListen \in BOOLEAN
    /\ opts \in IF viaListen
                THEN { Listen(t, h) : t \in Durations, h \in BOOLEAN }
                ELSE ListenOptions
    /\ urlOK \in BOOLEAN
    /\ Fresh
    /\ flags = NoFlags
    /\ run = RunIdle
    /\ FirstCall
    /\ vk = KeyIdle

\* ------------------------------------------------------------ the caller

\* A return that leaves the reminder ticker running.
ReturnTickerRunning(event, err) ==
    /\ pc' = "done"
    /\ result' = [event |-> event, err |-> err]
    /\ tickerStopped' = FALSE
    /\ bodyClosed' = (status # 0)
    /\ ctxErr' = IF ctxErr = "none" THEN "Canceled" ELSE ctxErr

\* A return of ListenWithOptions, with the deferred calls that were
\* registered by then: reminderTicker.Stop(), resp.Body.Close(), cancel().
Return(event, err) ==
    /\ pc' = "done"
    /\ result' = [event |-> event, err |-> err]
    /\ tickerStopped' = (tickerAt >= 0)
    /\ bodyClosed' = (status # 0)
    /\ ctxErr' = IF ctxErr = "none" THEN "Canceled" ELSE ctxErr

\* A derived context that is live when it is made, whatever the timeout.
WithTimeoutLive(timeout) == IF parentCancelled THEN "Canceled" ELSE "none"

\* context.WithTimeout(ctx, opts.Timeout) at the time of the call.
WithTimeout(timeout) ==
    IF parentCancelled THEN "Canceled"
    ELSE IF timeout <= 0 THEN "DeadlineExceeded"
    ELSE "none"

\* Lines 65-79: the start time, the derived context and the request.
Start ==
    /\ pc = "start"
    /\ startTime' = now
    /\ IF urlOK
       THEN /\ pc' = "do"
            /\ ctxErr' = WithTimeout(opts.Timeout)
            /\ requests' = requests + 1
            /\ UNCHANGED << result, tickerStopped, bodyClosed >>
       ELSE /\ pc' = "done"
            /\ result' = [event |-> << >>, err |-> << ErrCreateRequest >>]
            /\ ctxErr' = IF WithTimeout(opts.Timeout) = "none"
                         THEN "Canceled" ELSE WithTimeout(opts.Timeout)
            /\ UNCHANGED << requests, tickerStopped, bodyClosed >>
    /\ UNCHANGED << opts, viaListen, urlOK, runVars, seqVars, keyVars,
                    lag, now, parentCancelled, recv, status,
                    doErr, tickerAt, reminderChan, eventChan, errChan >>
    /\ UNCHANGED << readerVars, cbVars >>

\* Line 81: Client.Do returns a response or an error.  A context that is
\* done fails the request with the context's error.
Do ==
    /\ pc = "do"
    /\ \/ /\ ctxErr # "none"
          /\ doErr' = IF ctxErr = "DeadlineExceeded"
                      THEN "context deadline exceeded" ELSE "context canceled"
          /\ pc' = "doFailed"
          /\ UNCHANGED status
       \/ /\ ctxErr = "none"
          /\ \E f \in DoFailures : doErr' = f
          /\ pc' = "doFailed"
          /\ UNCHANGED status
       \/ /\ ctxErr = "none"
          /\ \E s \in Statuses : status' = s
          /\ pc' = "response"
          /\ UNCHANGED doErr
    /\ UNCHANGED << inputVars, runVars, seqVars, keyVars,
                    lag, now, ctxErr, parentCancelled, recv, result,
                    requests, tickerAt, tickerStopped, reminderChan, bodyClosed,
                    eventChan, errChan >>
    /\ UNCHANGED << readerVars, cbVars >>

\* A connect error that is not classified by the context.
ConnectErrorUnclassified == ErrConnectionFailed(doErr)

\* Lines 82-90: the error of Client.Do classified by ctx.Err().
ConnectError ==
    IF ctxErr = "DeadlineExceeded" THEN ErrTimeout
    ELSE IF ctxErr = "Canceled" THEN ErrCancelled
    ELSE ErrConnectionFailed(doErr)

\* A connect error that is answered by a second request.
DoFailedRetry ==
    /\ pc = "doFailed"
    /\ IF requests < 2
       THEN /\ pc' = "do"
            /\ requests' = requests + 1
            /\ doErr' = ""
            /\ UNCHANGED << status, result, tickerStopped, bodyClosed, ctxErr >>
       ELSE /\ Return(<< >>, << ConnectError >>)
            /\ UNCHANGED connVars
    /\ UNCHANGED << inputVars, runVars, seqVars, keyVars,
                    lag, now, parentCancelled, recv, tickerAt,
                    reminderChan, eventChan, errChan >>
    /\ UNCHANGED << readerVars, cbVars >>

\* Lines 82-90: Client.Do failed and the call returns the classified error.
DoFailed ==
    /\ pc = "doFailed"
    /\ Return(<< >>, << ConnectError >>)
    /\ UNCHANGED << inputVars, runVars, seqVars, keyVars,
                    lag, now, parentCancelled, recv, tickerAt,
                    reminderChan, eventChan, errChan >>
    /\ UNCHANGED << connVars, readerVars, cbVars >>

\* A ticker set up without the check of OnReminder.
TickerConfiguredNoNilCheck(o) == o.ReminderInterval > 0

\* Line 103: whether a reminder ticker is set up.
TickerConfigured(o) == o.ReminderInterval > 0 /\ o.OnReminder

\* A status check without the 401 case.
StatusErrorNo401(code) ==
    IF code # StatusOK THEN << ErrAPI(code) >> ELSE << >>

\* A status check that accepts every 2xx status.
StatusErrorAny2xx(code) ==
    IF code = StatusUnauthorized THEN << ErrUnauthorized >>
    ELSE IF code \notin 200 .. 299 THEN << ErrAPI(code) >>
    ELSE << >>

\* Lines 93-98: the status check.
StatusError(code) ==
    IF code = StatusUnauthorized THEN << ErrUnauthorized >>
    ELSE IF code # StatusOK THEN << ErrAPI(code) >>
    ELSE << >>

\* Lines 91-153: the status check, the ticker, the channels and the start
\* of the reader goroutine.
Response ==
    /\ pc = "response"
    /\ IF StatusError(status) # << >>
       THEN /\ Return(<< >>, StatusError(status))
            /\ UNCHANGED << tickerAt, rpc >>
       ELSE /\ tickerAt' = IF TickerConfigured(opts) THEN now ELSE -1
            /\ rpc' = "scan"
            /\ pc' = "select"
            /\ UNCHANGED << result, tickerStopped, bodyClosed, ctxErr >>
    /\ UNCHANGED << inputVars, runVars, seqVars, keyVars,
                    lag, now, parentCancelled, recv, reminderChan,
                    eventChan, errChan, line, linesRead, readEnd, readLive,
                    skipped >>
    /\ UNCHANGED << connVars, cbVars >>

\* ---------------------------------------------------------- the wait loop

\* The cases of the select at lines 157-180 that can proceed.  A nil
\* reminderChan (no ticker) never holds a tick.
ReadyCases ==
    (IF eventChan # << >> THEN { "event" } ELSE { })
    \cup (IF errChan # << >> THEN { "err" } ELSE { })
    \cup (IF reminderChan > 0 THEN { "tick" } ELSE { })
    \cup (IF ctxErr # "none" THEN { "done" } ELSE { })

\* What the case receives from its channel.
Received(case) ==
    CASE case = "event" -> eventChan
      [] case = "err" -> errChan
      [] OTHER -> << >>

\* Lines 168-172: the arguments of OnReminder.
Elapsed == now - startTime

\* A remaining time that is not floored at zero.
RemainingNoFloor(timeout, elapsed) == timeout - elapsed

\* Lines 169-172: the remaining time, floored at zero.
Remaining(timeout, elapsed) ==
    IF timeout - elapsed < 0 THEN 0 ELSE timeout - elapsed

\* Lines 175-179: the error of the ctx.Done() case.
DoneError ==
    IF ctxErr = "DeadlineExceeded" THEN ErrTimeout ELSE ErrCancelled

\* An event case that returns the event together with an error.
EventResultWithErr(val) == [event |-> val, err |-> << ErrCancelled >>]

\* Lines 158-162: the event case returns the received event.
EventResult(val) == [event |-> val, err |-> << >>]

\* An OnEvent call without the nil check.
CallOnEventUnchecked(val) == Append(onEventCalls, val[1])

\* Lines 159-161: OnEvent is called when it is set.
CallOnEvent(val) ==
    IF opts.OnEvent THEN Append(onEventCalls, val[1]) ELSE onEventCalls

\* The body of the select case taken, lines 158-179.
Branch(case, val) ==
    \/ /\ case = "event"
       /\ onEventCalls' = CallOnEvent(val)
       /\ Return(EventResult(val).event, EventResult(val).err)
       /\ UNCHANGED << reminderCalls, lastReminder >>
    \/ /\ case = "err"
       /\ Return(<< >>, val)
       /\ UNCHANGED cbVars
    \/ /\ case = "tick"
       /\ reminderCalls' = reminderCalls + 1
       /\ lastReminder' = << Elapsed, Remaining(opts.Timeout, Elapsed) >>
       /\ pc' = "inReminder"
       /\ UNCHANGED << result, tickerStopped, bodyClosed, ctxErr, onEventCalls >>
    \/ /\ case = "done"
       /\ Return(<< >>, << DoneError >>)
       /\ UNCHANGED cbVars

\* The select finds a case ready and takes it; with several ready it takes
\* any of them.
Select ==
    /\ pc = "select"
    /\ \E case \in ReadyCases :
         /\ Branch(case, Received(case))
         /\ eventChan' = IF case = "event" THEN << >> ELSE eventChan
         /\ errChan' = IF case = "err" THEN << >> ELSE errChan
         /\ reminderChan' = IF case = "tick" THEN 0 ELSE reminderChan
    /\ UNCHANGED << inputVars, runVars, seqVars, keyVars,
                    lag, now, parentCancelled, recv, tickerAt >>
    /\ UNCHANGED << connVars, readerVars >>

\* The select finds no case ready: the caller parks.
Park ==
    /\ pc = "select"
    /\ ReadyCases = { }
    /\ pc' = "parked"
    /\ UNCHANGED << inputVars, runVars, seqVars, keyVars,
                    lag, now, ctxErr, parentCancelled, recv, result,
                    tickerAt, tickerStopped, reminderChan, bodyClosed,
                    eventChan, errChan >>
    /\ UNCHANGED << connVars, readerVars, cbVars >>

\* A parked caller, resumed by a sender, runs the case it was resumed with.
Resume ==
    /\ pc = "resumed"
    /\ Branch(recv.case, recv.val)
    /\ recv' = NoRecv
    /\ UNCHANGED << inputVars, runVars, seqVars, keyVars,
                    lag, now, parentCancelled, tickerAt, reminderChan,
                    eventChan, errChan >>
    /\ UNCHANGED << connVars, readerVars >>

\* Line 173: OnReminder returns and the loop selects again.
ReminderReturns ==
    /\ pc = "inReminder"
    /\ pc' = "select"
    /\ UNCHANGED << inputVars, runVars, seqVars, keyVars,
                    lag, now, ctxErr, parentCancelled, recv, result,
                    tickerAt, tickerStopped, reminderChan, bodyClosed,
                    eventChan, errChan >>
    /\ UNCHANGED << connVars, readerVars, cbVars >>

\* ------------------------------------------------- the reader goroutine

\* A test of the record that forgets the content.
DeliverableAnyContent(event) == event.Type = "message"

\* Line 141: the decoded record is a reply.
Deliverable(event) == event.Type = "message" /\ event.Content # ""

\* A decoding that builds an event from an event: line of another type than
\* "connected".
DecodeEventLines(l) ==
    IF l.prefix = "" \/ HasPrefix(l, ":") THEN << >>
    ELSE IF HasPrefix(l, "event:")
         THEN IF l.text = "connected" THEN << >>
              ELSE << Event(l.text, "", l.text) >>
    ELSE IF HasPrefix(l, "data:")
         THEN IF Unmarshal(l.data).err THEN << >>
              ELSE IF Deliverable(Unmarshal(l.data).event)
                   THEN << Unmarshal(l.data).event >>
                   ELSE << >>
    ELSE << >>

\* Lines 117-145: one line decoded.  The result is the event to publish
\* (a sequence of length 1), or nothing when the loop goes on.
Decode(l) ==
    IF l.prefix = "" \/ HasPrefix(l, ":") THEN << >>
    ELSE IF HasPrefix(l, "event:") /\ l.text = "connected" THEN << >>
    ELSE IF HasPrefix(l, "data:")
         THEN IF Unmarshal(l.data).err THEN << >>
              ELSE IF Deliverable(Unmarshal(l.data).event)
                   THEN << Unmarshal(l.data).event >>
                   ELSE << >>
    ELSE << >>

\* Line 137: the data: line is skipped because its payload does not decode.
Malformed(l) == HasPrefix(l, "data:") /\ Unmarshal(l.data).err

\* A send on a channel of capacity 1 by the reader: a caller parked in the
\* select receives the value directly, otherwise the value is buffered.
SendToCaller(case, val) ==
    IF pc = "parked"
    THEN /\ pc' = "resumed"
         /\ recv' = [case |-> case, val |-> << val >>]
         /\ UNCHANGED << eventChan, errChan >>
    ELSE /\ eventChan' = IF case = "event" THEN Append(eventChan, val)
                         ELSE eventChan
         /\ errChan' = IF case = "err" THEN Append(errChan, val) ELSE errChan
         /\ UNCHANGED << pc, recv >>

\* A reader that leaves the loop on a malformed payload instead of going on
\* to the next line: it falls through to lines 148-152.
ScanLineBreak(l) ==
    /\ line' = l
    /\ linesRead' = linesRead + 1
    /\ skipped' = IF Malformed(l) THEN skipped + 1 ELSE skipped
    /\ IF Malformed(l)
       THEN /\ SendToCaller("err", ErrStreamClosed)
            /\ rpc' = "done"
            /\ UNCHANGED readLive
       ELSE IF Decode(l) # << >>
       THEN /\ SendToCaller("event", Decode(l)[1])
            /\ rpc' = "done"
            /\ readLive' = (ctxErr = "none")
       ELSE UNCHANGED << rpc, readLive, pc, recv, eventChan, errChan >>

\* A reader that publishes a deliverable record and goes on reading.
ScanLineNoReturn(l) ==
    /\ line' = l
    /\ linesRead' = linesRead + 1
    /\ skipped' = IF Malformed(l) THEN skipped + 1 ELSE skipped
    /\ IF Decode(l) # << >>
       THEN /\ SendToCaller("event", Decode(l)[1])
            /\ readLive' = (ctxErr = "none")
            /\ UNCHANGED rpc
       ELSE UNCHANGED << rpc, readLive, pc, recv, eventChan, errChan >>

\* Lines 117-145: the loop body on line l.  A deliverable record is sent on
\* eventChan and the goroutine returns; any other line leaves the loop
\* running.
ScanLine(l) ==
    /\ line' = l
    /\ linesRead' = linesRead + 1
    /\ skipped' = IF Malformed(l) THEN skipped + 1 ELSE skipped
    /\ IF Decode(l) # << >>
       THEN /\ SendToCaller("event", Decode(l)[1])
            /\ rpc' = "done"
            /\ readLive' = (ctxErr = "none")
       ELSE UNCHANGED << rpc, readLive, pc, recv, eventChan, errChan >>

\* Lines 116-146: scanner.Scan() returns a line and the loop body runs.
\* Lines already received can be read after the connection was torn down.
ReaderScan ==
    /\ rpc = "scan"
    /\ linesRead < MaxLines
    /\ \E l \in Lines : ScanLine(l)
    /\ UNCHANGED << inputVars, runVars, seqVars, keyVars,
                    lag, now, ctxErr, parentCancelled, result, tickerAt,
                    tickerStopped, reminderChan, bodyClosed, readEnd >>
    /\ UNCHANGED << connVars, cbVars >>

\* A read that observes neither the context nor the closing of the body.
ScanEndsServerOnly == { "eof", "reset", "toolong" }

\* How scanner.Scan() can end the loop: the server closed the stream, the
\* connection failed, a line exceeded the token size, the context tore the
\* connection down, or the body was closed under the reader.
ScanEnds ==
    { "eof", "reset", "toolong" }
    \cup (IF ctxErr # "none" THEN { "ctx" } ELSE { })
    \cup (IF bodyClosed THEN { "closed" } ELSE { })

\* A scanner for which an over-long line is the end of the stream.
ScannerErrLongAsEOF(end) ==
    CASE end \in { "eof", "toolong" } -> << >>
      [] end = "reset" -> << ScanReset >>
      [] end = "closed" -> << ScanClosedBody >>
      [] end = "ctx" -> IF ctxErr = "DeadlineExceeded"
                        THEN << ScanDeadline >> ELSE << ScanCanceled >>

\* scanner.Err() after the loop: nil at the end of the stream.
ScannerErr(end) ==
    CASE end = "eof" -> << >>
      [] end = "reset" -> << ScanReset >>
      [] end = "toolong" -> << ScanTooLong >>
      [] end = "closed" -> << ScanClosedBody >>
      [] end = "ctx" -> IF ctxErr = "DeadlineExceeded"
                        THEN << ScanDeadline >> ELSE << ScanCanceled >>

\* A reader that reports the end of the stream as a timeout.
ReaderErrorEOFAsTimeout(end) ==
    IF ScannerErr(end) # << >> THEN ScannerErr(end)[1] ELSE ErrTimeout

\* Lines 148-152: what the reader publishes on errChan.
ReaderError(end) ==
    IF ScannerErr(end) # << >> THEN ScannerErr(end)[1] ELSE ErrStreamClosed

\* Lines 146-153: scanner.Scan() returns false in one of the ways `ends`,
\* the reader publishes on errChan and the goroutine ends.
ReaderEndOn(ends) ==
    /\ rpc = "scan"
    /\ \E end \in ends :
         /\ SendToCaller("err", ReaderError(end))
         /\ readEnd' = end
    /\ rpc' = "done"
    /\ UNCHANGED << inputVars, runVars, seqVars, keyVars,
                    lag, now, ctxErr, parentCancelled, result,
                    tickerAt, tickerStopped, reminderChan, bodyClosed, line,
                    linesRead, readLive, skipped >>
    /\ UNCHANGED << connVars, cbVars >>

ReaderEnd == ReaderEndOn(ScanEnds)

\* The read of a reader whose connection was torn down returns: a blocked
\* read observes the cancelled context or the closed body.
TornDownEnd == ReaderEndOn(ScanEnds \cap { "ctx", "closed" })

\* ------------------------------------------------------- the environment

\* The deadline of the derived context passes at the new time.
DeadlineFires(t) == ctxErr = "none" /\ t - startTime >= opts.Timeout

\* The ticker sends a tick at the new time.
TickerFires(t) ==
    /\ tickerAt >= 0
    /\ ~tickerStopped
    /\ (t - tickerAt) % opts.ReminderInterval = 0

\* A ticker whose channel queues every tick.
TickerSendQueued(chan) == chan + 1

\* The ticker's send on its channel of capacity 1: the tick is dropped when
\* the channel is full.
TickerSend(chan) == IF chan < 1 THEN chan + 1 ELSE chan

\* The caller has a step to take: it is neither waiting for Client.Do nor
\* parked in the select.
CallerRunnable ==
    pc \in { "doFailed", "response", "select", "resumed", "inReminder" }

\* Time advances by one unit.  The deadline timer cancels the context, the
\* ticker sends on its channel of capacity 1 and drops the tick when the
\* channel is full.  A parked caller is resumed by whichever comes first.
Tick ==
    /\ now < MaxTime
    /\ pc \notin { "start", "done" }
    /\ now' = now + 1
    /\ lag' = (lag \/ CallerRunnable)
    /\ ctxErr' = IF DeadlineFires(now') THEN "DeadlineExceeded" ELSE ctxErr
    /\ \/ /\ pc = "parked"
          /\ TickerFires(now')
          /\ pc' = "resumed"
          /\ recv' = [case |-> "tick", val |-> << >>]
          /\ UNCHANGED reminderChan
       \/ /\ pc = "parked"
          /\ DeadlineFires(now')
          /\ pc' = "resumed"
          /\ recv' = [case |-> "done", val |-> << >>]
          /\ reminderChan' = IF TickerFires(now') THEN TickerSend(reminderChan)
                            ELSE reminderChan
       \/ /\ pc # "parked" \/ (~TickerFires(now') /\ ~DeadlineFires(now'))
          /\ reminderChan' = IF TickerFires(now') THEN TickerSend(reminderChan)
                            ELSE reminderChan
          /\ UNCHANGED << pc, recv >>
    /\ UNCHANGED << inputVars, runVars, seqVars, keyVars,
                    parentCancelled, result, tickerAt,
                    tickerStopped, bodyClosed, eventChan, errChan >>
    /\ UNCHANGED << connVars, readerVars, cbVars >>

\* The caller of ListenWithOptions cancels the parent context.
CancelParent ==
    /\ pc # "done"
    /\ ~parentCancelled
    /\ parentCancelled' = TRUE
    /\ ctxErr' = IF ctxErr = "none" THEN "Canceled" ELSE ctxErr
    /\ IF pc = "parked" /\ ctxErr = "none"
       THEN /\ pc' = "resumed"
            /\ recv' = [case |-> "done", val |-> << >>]
       ELSE UNCHANGED << pc, recv >>
    /\ UNCHANGED << inputVars, runVars, seqVars, keyVars,
                    lag, now, result, tickerAt, tickerStopped,
                    reminderChan, bodyClosed, eventChan, errChan >>
    /\ UNCHANGED << connVars, readerVars, cbVars >>

Next ==
    \/ Start
    \/ Do
    \/ DoFailed
    \/ Response
    \/ Select
    \/ Park
    \/ Resume
    \/ ReminderReturns
    \/ ReaderScan
    \/ ReaderEnd
    \/ Tick
    \/ CancelParent

Spec == Init /\ [][Next]_vars

\* The reader goroutine is scheduled and its read on a torn-down connection
\* returns.
FairSpec == Spec /\ WF_vars(TornDownEnd)

\* A step of the calling goroutine.
CallerStep ==
    \/ Start
    \/ Do
    \/ DoFailed
    \/ Response
    \/ Select
    \/ Park
    \/ Resume
    \/ ReminderReturns

\* Fair scheduling: the calling goroutine takes its steps, Client.Do and
\* OnReminder return, time passes and the reader's read on a torn-down
\* connection returns.
LiveSpec ==
    Spec /\ WF_vars(CallerStep) /\ WF_vars(Tick) /\ WF_vars(TornDownEnd)

\* ------------------------------------- sequential calls on one Listener

\* Calls made on one Listener, one after the other.
MaxCalls == 2

\* The options of the calls of a sequence.
SeqOptions ==
    { o \in ListenOptions :
        o.Timeout = 1 /\ o.ReminderInterval \in { 0, 1 } /\ o.OnEvent
          /\ o.OnReminder }

SeqInit ==
    /\ viaListen = FALSE
    /\ opts \in SeqOptions
    /\ urlOK \in BOOLEAN
    /\ Fresh
    /\ flags = NoFlags
    /\ run = RunIdle
    /\ FirstCall
    /\ vk = KeyIdle

\* Lines 64-111: a call begins.  Whatever it works with is a local variable
\* made by this call: url, startTime, the derived context, the request and
\* the response, the ticker, eventChan and errChan (given here), the
\* scanner.  The clock counts from the moment of the call.
NewCall(events, errs) ==
    /\ now' = 0
    /\ startTime' = 0
    /\ ctxErr' = "none"
    /\ parentCancelled' = FALSE
    /\ pc' = "start"
    /\ recv' = NoRecv
    /\ result' = NoResult
    /\ status' = 0
    /\ doErr' = ""
    /\ requests' = 0
    /\ tickerAt' = -1
    /\ tickerStopped' = FALSE
    /\ reminderChan' = 0
    /\ bodyClosed' = FALSE
    /\ rpc' = "notstarted"
    /\ line' = NoLine
    /\ linesRead' = 0
    /\ eventChan' = events
    /\ errChan' = errs
    /\ onEventCalls' = << >>
    /\ reminderCalls' = 0
    /\ lastReminder' = << 0, 0 >>
    /\ readEnd' = "none"
    /\ readLive' = FALSE
    /\ skipped' = 0
    /\ lag' = FALSE

\* A Listener that keeps its channels from one call to the next.
NextCallKeepsChannels ==
    /\ pc = "done"
    /\ calls < MaxCalls - 1
    /\ calls' = calls + 1
    /\ prev' = Summary(result)
    /\ opts' \in SeqOptions
    /\ urlOK' \in BOOLEAN
    /\ NewCall(eventChan, errChan)
    /\ UNCHANGED << viaListen, listener, runVars, keyVars >>

\* The caller makes the next call on the Listener after the last one
\* returned; a reader goroutine the last call left behind keeps to the
\* channels of that call.
NextCall ==
    /\ pc = "done"
    /\ calls < MaxCalls - 1
    /\ calls' = calls + 1
    /\ prev' = Summary(result)
    /\ opts' \in SeqOptions
    /\ urlOK' \in BOOLEAN
    /\ NewCall(<< >>, << >>)
    /\ UNCHANGED << viaListen, listener, runVars, keyVars >>

SeqNext == Next \/ NextCall

SeqSpec == SeqInit /\ [][SeqNext]_vars

\* ------------------------------------------------------- cmd/main.go: run

listenerVars ==
    << inputVars, now, ctxErr, parentCancelled, callerVars, connVars,
       tickerAt, tickerStopped, reminderChan, bodyClosed, readerVars,
       eventChan, errChan, cbVars, lag >>

\* A message-sending run, before its first step; the listener has not been
\* called.
RunInit ==
    /\ flags \in Flags
    /\ run = RunStart
    /\ viaListen = FALSE
    /\ opts = [Timeout |-> flags.timeout, ReminderInterval |-> 0,
               OnEvent |-> TRUE, OnReminder |-> TRUE]
    /\ urlOK = TRUE
    /\ Fresh
    /\ FirstCall
    /\ vk = KeyIdle

\* run returns code after printing reports.
Exit(r, code, reports) ==
    [r EXCEPT !.pc = "exited", !.exit = << code >>, !.out = @ \o reports]

\* A validation that lets both channels through.
ValidFlagsEitherChannel(f) == (f.sms \/ f.whatsapp) /\ f.msg # ""

\* Lines 85-100: the message flags are valid.
ValidFlags(f) ==
    /\ f.sms \/ f.whatsapp
    /\ ~(f.sms /\ f.whatsapp)
    /\ f.msg # ""

\* Lines 75-100: -h, -v, then the validation of the message flags.
RunFlags ==
    /\ run.pc = "flags"
    /\ run' = IF flags.help THEN Exit(run, exitSuccess, << "help" >>)
              ELSE IF flags.version
                     THEN Exit(run, exitSuccess, << "version" >>)
              ELSE IF ~ValidFlags(flags)
                     THEN Exit(run, exitBadArgs, << "400 Bad Request" >>)
              ELSE [run EXCEPT !.pc = "load"]
    /\ UNCHANGED << flags, seqVars, keyVars, listenerVars >>

\* A resolution that prefers the configuration to the --reminder flag.
ReminderTextFileFirst(flag, cfgText) == IF cfgText # "" THEN cfgText ELSE flag

\* Lines 113-115: the --reminder flag overrides the configuration.
ReminderText(flag, cfgText) == IF flag # "" THEN flag ELSE cfgText

\* Lines 117-125: the reminder interval, << >> when the text does not parse.
ReminderInterval(text) ==
    IF text # "0" /\ text # "" THEN ParseDuration(text) ELSE << 0 >>

\* Lines 103-125, with what config.Load returned.
Loaded(r, l) ==
    IF l = << >> THEN Exit(r, exitBadArgs, << "401 Unauthorized" >>)
    ELSE LET text == ReminderText(flags.reminder, l[1].ReminderInterval)
             q == [r EXCEPT !.cfg = << [ReminderInterval |-> text] >>]
         IN  IF ReminderInterval(text) = << >>
             THEN Exit(q, exitBadArgs, << "400 Bad Request" >>)
             ELSE [q EXCEPT !.reminderInterval = ReminderInterval(text)[1],
                            !.pc = "send"]

\* Lines 102-125: the configuration is loaded and the reminder interval
\* resolved.
RunLoad ==
    /\ run.pc = "load"
    /\ \E f \in ConfigFiles :
          run' = Loaded([run EXCEPT !.loads = @ + 1, !.file = f], Load(f))
    /\ UNCHANGED << flags, seqVars, keyVars, listenerVars >>

\* Lines 139-143: the shell escapes removed from the message.
Unescape(text) == IF text = "done\\!" THEN "done!" ELSE text

\* A hint that does not look at --no-wait.
MessageHintUnlessNoHint(f) == [text |-> Unescape(f.msg), hint |-> ~f.noHint]

\* Lines 136-152: the message sent; hint says that "\n\n[No reply expected]"
\* was appended.
Message(f) == [text |-> Unescape(f.msg), hint |-> f.noWait /\ ~f.noHint]

\* Lines 159-165.
MsgType(f) == IF f.sms THEN "SMS" ELSE "WhatsApp"

\* A session id that falls back on one made up by the client.
SessionOfOrLocal(s) ==
    IF s.resp # << >> /\ s.resp[1].SessionID # ""
    THEN s.resp[1].SessionID ELSE "local"

\* Lines 174-180: the session id of the server's response.
SessionOf(s) == IF s.resp # << >> THEN s.resp[1].SessionID ELSE ""

\* Lines 167-191, with what the send returned.
Sent(r, s) ==
    IF s.err THEN Exit(r, exitSendFailed, << "Error" >>)
    ELSE IF SessionOf(s) = "" THEN Exit(r, exitSendFailed, << "Error" >>)
    ELSE LET q == [r EXCEPT !.sessionID = SessionOf(s),
                            !.out = Append(@, "MessageSent")]
         IN  IF flags.noWait THEN Exit(q, exitSuccess, << >>)
             ELSE [q EXCEPT !.pc = "wait"]

\* Lines 127-191: the message is prepared and sent, and the send's outcome
\* handled.
RunSend ==
    /\ run.pc = "send"
    /\ \E s \in SendResults :
          run' = Sent([run EXCEPT !.sent = Append(@, [type |-> MsgType(flags),
                                                      message |-> Message(flags)]),
                                  !.sendErr = s.err,
                                  !.resp = s.resp],
                      s)
    /\ UNCHANGED << flags, seqVars, keyVars, listenerVars >>

\* Lines 194-231: the signal handler is installed and ListenWithOptions
\* called.
RunWait ==
    /\ run.pc = "wait"
    /\ run' = [run EXCEPT
                 !.out = Append(@, "WaitingStart"),
                 !.sigHandler = TRUE,
                 !.listenCalls = Append(@, [sessionID |-> run.sessionID,
                                            Timeout |-> flags.timeout,
                                            ReminderInterval |->
                                                run.reminderInterval]),
                 !.pc = "listening"]
    /\ UNCHANGED << flags, seqVars, keyVars, listenerVars >>

\* What ListenWithOptions returns to run.
ListenResults ==
    { EventResult(<< p.ev >>) : p \in { q \in Payloads : Deliverable(q.ev) } }
    \cup
    { [event |-> << >>, err |-> << e >>] :
        e \in { ErrCreateRequest, ErrTimeout, ErrCancelled, ErrUnauthorized,
                ErrStreamClosed, ScanDeadline, ScanCanceled, ScanClosedBody,
                ScanReset, ScanTooLong }
              \cup { ErrConnectionFailed(d) : d \in DoFailures }
              \cup { ErrAPI(c) : c \in Statuses \ { StatusOK, StatusUnauthorized } } }

\* Lines 217-243: what run reports for the result of the wait; the OnEvent
\* callback reports the response.
Reports(r) ==
    IF r.err = << >> THEN << "Response" >>
    ELSE IF Contains(r.err[1], "timeout") THEN << "Timeout" >>
    ELSE IF Contains(r.err[1], "cancelled") THEN << >>
    ELSE << "Error" >>

\* Lines 213-246: ListenWithOptions returns and run exits.
RunListenReturns ==
    /\ run.pc = "listening"
    /\ \E r \in ListenResults : run' = Exit(run, ListenExit(r), Reports(r))
    /\ UNCHANGED << flags, seqVars, keyVars, listenerVars >>

RunNext ==
    \/ RunFlags
    \/ RunLoad
    \/ RunSend
    \/ RunWait
    \/ RunListenReturns

RunSpec == RunInit /\ [][RunNext]_vars

\* ------------------------------------------- cmd/main.go: the waiting run

\* The command lines of the runs that wait for a response.
WaitFlags ==
    { f \in Flags : /\ f.sms /\ ~f.whatsapp /\ f.msg = "done"
                    /\ ~f.noWait /\ ~f.noHint /\ ~f.help /\ ~f.version
                    /\ f.timeout = MaxTimeout }

WaitInit == RunInit /\ flags \in WaitFlags

\* Lines 194-231: the signal handler is installed and ListenWithOptions
\* called with the timeout of the command line and the reminder interval
\* resolved at lines 117-125.
RunListen ==
    /\ run.pc = "wait"
    /\ run' = [run EXCEPT
                 !.out = Append(@, "WaitingStart"),
                 !.sigHandler = TRUE,
                 !.listenCalls = Append(@, [sessionID |-> run.sessionID,
                                            Timeout |-> flags.timeout,
                                            ReminderInterval |->
                                                run.reminderInterval]),
                 !.pc = "listening"]
    /\ opts' = [Timeout |-> flags.timeout,
                ReminderInterval |-> run.reminderInterval,
                OnEvent |-> TRUE, OnReminder |-> TRUE]
    /\ UNCHANGED << flags, seqVars, keyVars,
                    viaListen, urlOK, startTime, now, ctxErr,
                    parentCancelled, callerVars, connVars, tickerAt,
                    tickerStopped, reminderChan, bodyClosed, readerVars,
                    eventChan, errChan, cbVars, lag >>

\* run is between the call of ListenWithOptions and its own return.
Listening == run.pc = "listening"

\* report has been printed by run or by the signal-handler goroutine.
Printed(report) == \E i \in 1..Len(run.out) : run.out[i] = report

\* Lines 203-205: the goroutine receives SIGINT or SIGTERM from sigChan and
\* prints the Cancelled report.
SigReceive ==
    /\ Listening
    /\ run.sigHandler
    /\ ~Printed("Cancelled")
    /\ run' = [run EXCEPT !.out = Append(@, "Cancelled")]
    /\ UNCHANGED << flags, seqVars, keyVars, listenerVars >>

\* Line 206: the goroutine cancels the context of the wait.
SigCancel ==
    /\ Listening
    /\ Printed("Cancelled")
    /\ CancelParent

\* Lines 233-243: the reports run prints for the error of the wait.
ErrorReports(r) == IF r.err = << >> THEN << >> ELSE Reports(r)

\* Lines 233-246: ListenWithOptions has returned and run returns.
RunListenReturned ==
    /\ Listening
    /\ pc = "done"
    /\ run' = Exit(run, ListenExit(result), ErrorReports(result))
    /\ UNCHANGED << flags, seqVars, keyVars, listenerVars >>

\* The steps of ListenWithOptions and of its reader goroutine, called by
\* run.
ListenStep ==
    /\ Listening
    /\ \/ Start
       \/ Do
       \/ DoFailed
       \/ Response
       \/ Select
       \/ Park
       \/ Resume
       \/ ReminderReturns
       \/ ReaderScan
       \/ ReaderEnd
       \/ Tick

WaitNext ==
    \/ RunFlags
    \/ RunLoad
    \/ RunSend
    \/ RunListen
    \/ ListenStep
    \/ SigReceive
    \/ SigCancel
    \/ RunListenReturned

WaitSpec == WaitInit /\ [][WaitNext]_vars

\* Lines 217-243 and 205: the reports of a run that say how the wait ended;
\* Response is printed by the OnEvent callback.
Emitted ==
    { r \in { "Timeout", "Error", "Cancelled" } : Printed(r) }
    \cup (IF onEventCalls # << >> THEN { "Response" } ELSE { })

\* --------------------------------------- api/client.go: ValidateKey steps

KeyInit ==
    /\ vk \in { KeyStart(c, k, ok) :
                  c \in KeyCallers, k \in { "key", "revoked" },
                  ok \in BOOLEAN }
    /\ viaListen = FALSE
    /\ opts = [Timeout |-> 1, ReminderInterval |-> 0,
               OnEvent |-> TRUE, OnReminder |-> TRUE]
    /\ urlOK = TRUE
    /\ Fresh
    /\ flags = NoFlags
    /\ run = RunIdle
    /\ FirstCall

\* ValidateKey returns err (<< >> for nil).
KeyReturn(err) == [vk EXCEPT !.pc = "returned", !.returned = << err >>]

\* Lines 155-161: the request is created and the key set in its header.
KeyRequest ==
    /\ vk.pc = "start"
    /\ vk' = IF vk.urlOK THEN [vk EXCEPT !.pc = "do"]
             ELSE KeyReturn(<< ErrCreateRequest >>)
    /\ UNCHANGED << runVars, seqVars, listenerVars >>

\* Lines 164-168: Client.Do fails and ValidateKey returns the connection
\* error.
KeyDoFailed ==
    /\ vk.pc = "do"
    /\ \E d \in KeyDoFailures :
          vk' = KeyReturn(<< ErrConnectionFailed(d) >>)
    /\ UNCHANGED << runVars, seqVars, listenerVars >>

\* Lines 165-170: Client.Do returns the server's response.
KeyResponse ==
    /\ vk.pc = "do"
    /\ \E s \in KeyStatuses : vk' = [vk EXCEPT !.pc = "check", !.status = s]
    /\ UNCHANGED << runVars, seqVars, listenerVars >>

\* Lines 172-179: the error for the status of the response, << >> for nil.
KeyStatusError(code) ==
    IF code = StatusUnauthorized THEN << Err("invalid API key", "") >>
    ELSE IF code = StatusForbidden
           THEN << Err("subscription not active", "") >>
    ELSE << >>

\* Lines 172-179: the status of the response is checked and ValidateKey
\* returns.
KeyCheck ==
    /\ vk.pc = "check"
    /\ vk' = KeyReturn(KeyStatusError(vk.status))
    /\ UNCHANGED << runVars, seqVars, listenerVars >>

\* main.go lines 303-308 and 376-381: the caller reports the key as valid
\* or not and returns exitAPIError on an error.
KeyReport ==
    /\ vk.pc = "returned"
    /\ vk' = IF vk.returned[1] = << >>
             THEN [vk EXCEPT !.pc = "reported", !.report = "Valid"]
             ELSE [vk EXCEPT !.pc = "reported",
                             !.report = IF vk.caller = "login" THEN "Failed"
                                        ELSE "Invalid",
                             !.exit = << exitAPIError >>]
    /\ UNCHANGED << runVars, seqVars, listenerVars >>

KeyNext ==
    \/ KeyRequest
    \/ KeyDoFailed
    \/ KeyResponse
    \/ KeyCheck
    \/ KeyReport

KeySpec == KeyInit /\ [][KeyNext]_vars

\* ---------------------------------------------------------------- claims

\* The call has returned.
Returned == pc = "done"

\* The reader goroutine was started: the response was 200.
Connected == rpc # "notstarted"

\* The deliverable record the reader read, if it read one.
DeliverableRead == Decode(line)

\* The callbacks an event return makes: OnEvent once with the event when it
\* is set, none otherwise.
OnEventOnceWith(ev) ==
    onEventCalls = IF opts.OnEvent THEN << ev >> ELSE << >>

\* The context was live when the call returned: the deferred cancel() is
\* what cancelled it.
LiveAtReturn == Returned /\ ctxErr = "Canceled" /\ ~parentCancelled

\* C1: a deliverable record read by the reader before the deadline and
\* before a cancellation is what the call returns, with a nil error and one
\* OnEvent invocation with that event.
C1_ReadInTimeIsReturned ==
    (Returned /\ Connected /\ readLive) =>
        /\ result = [event |-> DeliverableRead, err |-> << >>]
        /\ OnEventOnceWith(DeliverableRead[1])

\* C2: with the stream connected and open, no deliverable record read, the
\* parent context not cancelled and the deadline expired, the call returns
\* the timeout error and OnEvent is not invoked.
C2_DeadlineReturnsTimeout ==
    (/\ Returned
     /\ Connected
     /\ ctxErr = "DeadlineExceeded"
     /\ ~parentCancelled
     /\ DeliverableRead = << >>
     /\ readEnd \in { "none", "ctx" }) =>
        /\ result = [event |-> << >>, err |-> << ErrTimeout >>]
        /\ onEventCalls = << >>

\* C3: with the stream connected and open, no deliverable record read and
\* the parent context cancelled before the deadline, the call returns the
\* cancelled error.
C3_CancelReturnsCancelled ==
    (/\ Returned
     /\ Connected
     /\ parentCancelled
     /\ ctxErr = "Canceled"
     /\ DeliverableRead = << >>
     /\ readEnd \in { "none", "ctx" }) =>
        result = [event |-> << >>, err |-> << ErrCancelled >>]

\* The messages of the failures a call can return, by outcome.
OutcomeOf(r) ==
    IF r.event # << >> THEN "event received"
    ELSE IF r.err = << >> THEN "none"
    ELSE CASE r.err[1].msg = "timeout waiting for response" -> "timeout"
           [] r.err[1].msg = "cancelled" -> "cancelled"
           [] r.err[1].msg = "unauthorized: invalid API key" -> "unauthorized"
           [] r.err[1].msg = "connection closed without response"
                -> "stream closed"
           [] r.err[1].msg \in { "failed to create request",
                                 "connection failed", "API error",
                                 "context deadline exceeded",
                                 "context canceled",
                                 "http: read on closed response body",
                                 "connection reset by peer",
                                 "bufio.Scanner: token too long" }
                -> "transport error"
           [] OTHER -> "unknown"

Outcomes ==
    { "event received", "timeout", "cancelled", "unauthorized",
      "transport error", "stream closed" }

\* C4: a call returns once, with either an event and a nil error or a nil
\* event and an error, never both and never neither, and the outcome is one
\* of event received, timeout, cancelled, unauthorized, transport error and
\* stream closed; before it returns there is no result.
C4_OneTerminalOutcome ==
    /\ [](IF Returned
          THEN /\ (result.event # << >>) # (result.err # << >>)
               /\ Len(result.event) + Len(result.err) = 1
               /\ OutcomeOf(result) \in Outcomes
          ELSE result = NoResult)
    /\ [][Returned => (Returned' /\ result' = result /\ cbVars' = cbVars)]_vars

C4_Witness ==
    /\ Returned
    /\ result.event # << >>
    /\ rpc = "done"
    /\ ctxErr = "DeadlineExceeded"

\* C5: when the server closes the stream without error before a deliverable
\* record was read, and the call returns with neither the deadline expired
\* nor the parent context cancelled, the call returns the stream-closed
\* error, which is neither the timeout nor the cancelled error, and OnEvent
\* is not invoked.
C5_StreamClosed ==
    (LiveAtReturn /\ readEnd = "eof") =>
        /\ result = [event |-> << >>, err |-> << ErrStreamClosed >>]
        /\ result.err[1] \notin { ErrTimeout, ErrCancelled }
        /\ onEventCalls = << >>

C5_Witness ==
    /\ LiveAtReturn
    /\ readEnd = "eof"
    /\ linesRead > 0
    /\ line = Line("data:", "", Payload(TRUE, Event("connected", "", "")))
    /\ OutcomeOf(result) = "stream closed"

\* C6: a 401 response makes the call return the unauthorized error at the
\* status check, whatever the timeout: the reader goroutine is not started,
\* no ticker is created, no line is read and no callback is invoked.
C6_Unauthorized ==
    (status = 401) =>
        /\ pc \in { "response", "done" }
        /\ Returned => result = [event |-> << >>, err |-> << ErrUnauthorized >>]
        /\ rpc = "notstarted"
        /\ tickerAt = -1
        /\ reminderChan = 0
        /\ linesRead = 0
        /\ onEventCalls = << >>
        /\ reminderCalls = 0

C6_Witness ==
    /\ status = 401
    /\ Returned
    /\ opts.Timeout = MaxTimeout
    /\ opts.OnReminder /\ opts.ReminderInterval = 1
    /\ now - startTime >= opts.ReminderInterval
    /\ OutcomeOf(result) = "unauthorized"

\* The status check is behind the caller.
StatusChecked == status # 0 /\ pc # "response"

\* C7, as claimed: for a status other than 401, a status outside 2xx fails
\* the call with the API error carrying the status text and the body is not
\* read; any 2xx status makes the call read the stream.
C7_Any2xxReadsStream ==
    (StatusChecked /\ status # 401) =>
        IF status \in 200 .. 299
        THEN Connected
        ELSE /\ result = [event |-> << >>, err |-> << ErrAPI(status) >>]
             /\ ~Connected
             /\ linesRead = 0

\* C7, amended: for a status other than 401, a status other than 200 fails
\* the call with the API error carrying the status text and the body is not
\* read; the status 200 makes the call read the stream.
C7_Only200ReadsStream ==
    (StatusChecked /\ status # 401) =>
        IF status = 200
        THEN Connected
        ELSE /\ Returned
             /\ result = [event |-> << >>,
                          err |-> << Err("API error", StatusText(status)) >>]
             /\ ~Connected
             /\ linesRead = 0

C7_Witness ==
    /\ StatusChecked
    /\ status = 204
    /\ Returned
    /\ result.err = << Err("API error", "204 No Content") >>
    /\ ~Connected

\* A decoded data record that is not a reply.
NonDeliverableRecord(l) ==
    /\ l.prefix = "data:"
    /\ l.data.valid
    /\ l.data.ev.Type # "message" \/ l.data.ev.Content = ""

\* The reader read one more line.
ReadsLine == linesRead' = linesRead + 1

\* The step publishes nothing and leaves the caller and the callbacks alone.
NothingPublished ==
    /\ rpc' = "scan"
    /\ UNCHANGED << pc, recv, result, eventChan, errChan, cbVars >>

\* C8: reading a decoded record that is not deliverable (another type, or a
\* message with empty content) leaves the reader reading and the caller
\* where it is: nothing is published, the call does not return and OnEvent
\* is not invoked.
C8_NonDeliverableIgnored ==
    [][(ReadsLine /\ NonDeliverableRecord(line')) => NothingPublished]_vars

C8_Witness ==
    /\ linesRead = MaxLines
    /\ NonDeliverableRecord(line)
    /\ line.data.ev.Type = "message"
    /\ rpc = "scan"
    /\ pc = "parked"
    /\ result = NoResult
    /\ onEventCalls = << >>

\* A data: line whose payload does not decode.
MalformedData(l) == l.prefix = "data:" /\ ~l.data.valid

\* A data: line that carries a reply.
DeliverableData(l) ==
    /\ l.prefix = "data:"
    /\ l.data.valid
    /\ l.data.ev.Type = "message"
    /\ l.data.ev.Content # ""

\* The step hands ev to the wait loop: on eventChan, or directly to the
\* parked caller.
Publishes(ev) ==
    /\ rpc' = "done"
    /\ \/ eventChan' = << ev >> /\ UNCHANGED << pc, recv >>
       \/ /\ pc = "parked"
          /\ pc' = "resumed"
          /\ recv' = [case |-> "event", val |-> << ev >>]
    /\ UNCHANGED << errChan, result >>

\* C9: a data: line with a malformed payload is skipped: nothing is
\* published on eventChan or errChan and the call does not return.  A
\* deliverable record read after malformed lines is published to the wait
\* loop, and a call that returns with the context live returns it.
C9_MalformedSkipped ==
    /\ [][(ReadsLine /\ MalformedData(line')) => NothingPublished]_vars
    /\ [][(ReadsLine /\ skipped > 0 /\ DeliverableData(line'))
             => Publishes(line'.data.ev)]_vars
    /\ []((LiveAtReturn /\ skipped > 0 /\ DeliverableData(line)) =>
             /\ result = [event |-> << line.data.ev >>, err |-> << >>]
             /\ OnEventOnceWith(line.data.ev))

C9_Witness ==
    /\ Returned
    /\ skipped > 0
    /\ DeliverableData(line)
    /\ result = [event |-> << line.data.ev >>, err |-> << >>]

\* Reminders are off: the interval is not positive or OnReminder is nil.
RemindersOff == opts.ReminderInterval <= 0 \/ ~opts.OnReminder

\* C10: with a reminder interval that is not positive, or a nil OnReminder,
\* or a call through Listen, no ticker is created, no tick is ever pending,
\* the reminder case is never taken and OnReminder is never invoked.
C10_NoReminders ==
    (RemindersOff \/ viaListen) =>
        /\ tickerAt = -1
        /\ reminderChan = 0
        /\ recv.case # "tick"
        /\ pc # "inReminder"
        /\ reminderCalls = 0

C10_Witness ==
    /\ opts.ReminderInterval = 1
    /\ ~opts.OnReminder
    /\ pc = "parked"
    /\ now - startTime >= opts.ReminderInterval

\* The step invokes OnReminder.
InvokesOnReminder == reminderCalls' = reminderCalls + 1

\* The larger of two integers.
Max(a, b) == IF a >= b THEN a ELSE b

\* C11: at every OnReminder invocation elapsed is the time since the call
\* started and remaining = max(0, Timeout - elapsed): remaining is never
\* negative, and elapsed + remaining = Timeout whenever elapsed <= Timeout.
C11_ReminderArguments ==
    /\ [][InvokesOnReminder =>
            /\ lastReminder'[1] = now - startTime
            /\ lastReminder'[2] = Max(0, opts.Timeout - lastReminder'[1])]_vars
    /\ [](reminderCalls > 0 =>
            /\ lastReminder[2] >= 0
            /\ lastReminder[1] <= opts.Timeout =>
                   lastReminder[1] + lastReminder[2] = opts.Timeout)

C11_Witness ==
    /\ reminderCalls > 0
    /\ lastReminder[1] > opts.Timeout
    /\ lastReminder[2] = 0

\* The least k with k * d >= t, for d > 0.
CeilDiv(t, d) == (t + d - 1) \div d

\* The stream stayed open and delivered nothing: no line was read and the
\* reader's loop ended, if it did, by the teardown of the connection.
SilentStream == linesRead = 0 /\ readEnd \in { "none", "ctx" }

\* C12: with 0 < ReminderInterval < Timeout, OnReminder set, a stream that
\* stays open and delivers nothing, no cancellation and a caller that never
\* lets time pass while it has a step to take, OnReminder is invoked at
\* least ceil(Timeout / ReminderInterval) - 1 times and the call then
\* returns the timeout error.
C12_RemindersThenTimeout ==
    (/\ Returned
     /\ Connected
     /\ ~lag
     /\ ~parentCancelled
     /\ opts.OnReminder
     /\ 0 < opts.ReminderInterval
     /\ opts.ReminderInterval < opts.Timeout
     /\ SilentStream) =>
        /\ reminderCalls >= CeilDiv(opts.Timeout, opts.ReminderInterval) - 1
        /\ result = [event |-> << >>, err |-> << ErrTimeout >>]

\* C13: when a reminder tick and the done signal of the context are both
\* ready as the wait loop selects, the loop does not invoke OnReminder: it
\* takes the termination branch.
C13_TerminationBeatsTick ==
    [][(pc = "select" /\ reminderChan > 0 /\ ctxErr # "none")
         => (~InvokesOnReminder /\ pc' # "inReminder")]_vars

\* Values the reader has sent that the wait loop has not taken yet.
Pending ==
    Len(eventChan) + Len(errChan)
        + (IF recv.case \in { "event", "err" } THEN 1 ELSE 0)

\* The step is a send of the reader, buffered or handed to the parked caller.
ReaderSends ==
    \/ Len(eventChan') > Len(eventChan)
    \/ Len(errChan') > Len(errChan)
    \/ recv' # recv /\ recv'.case \in { "event", "err" }

\* C14: the reader sends at most once on eventChan and errChan together:
\* a send finds both channels empty, so it does not block with capacity 1,
\* also after the wait loop has returned, and it ends the goroutine.
C14_ReaderSendsOnce ==
    /\ [](Pending <= 1 /\ Len(eventChan) <= 1 /\ Len(errChan) <= 1)
    /\ [][ReaderSends =>
            /\ rpc = "scan" /\ rpc' = "done"
            /\ eventChan = << >> /\ errChan = << >>]_vars
    /\ [][rpc = "done" => (rpc' = "done" /\ ~ReaderSends)]_vars

C14_Witness ==
    /\ Returned
    /\ result.err = << ErrTimeout >>
    /\ readEnd = "closed"
    /\ errChan = << ScanClosedBody >>

\* C15: once the call has returned after starting the reader, the body is
\* closed and the context is cancelled, and the reader goroutine ends.
C15_ReaderExits ==
    /\ []((Returned /\ Connected) => (bodyClosed /\ ctxErr # "none"))
    /\ (Returned /\ Connected) ~> (rpc = "done")

C15_Witness ==
    /\ Returned
    /\ result.err = << ErrTimeout >>
    /\ rpc = "done"
    /\ readEnd \in { "ctx", "closed" }
    /\ linesRead > 0

\* C16: the event returned is the first deliverable record of the stream:
\* the reader publishes it and ends, no line is read after a deliverable
\* one, and an event result is the record of the last line read.
C16_FirstDeliverableWins ==
    /\ [][ReadsLine => ~DeliverableData(line)]_vars
    /\ [][DeliverableData(line) =>
            (rpc = "done" /\ UNCHANGED << rpc, line, linesRead >>)]_vars
    /\ []((Returned /\ result.event # << >>) =>
            /\ DeliverableData(line)
            /\ result.event = << line.data.ev >>)

C16_Witness ==
    /\ Returned
    /\ linesRead = MaxLines
    /\ DeliverableData(line)
    /\ result.event = << line.data.ev >>
    /\ rpc = "done"

\* C17: OnEvent is invoked at most once, only by the step that returns an
\* event and with that event, and never by a call that returns a failure;
\* with OnEvent nil the event is returned all the same.
C17_OnEventOnlyOnSuccess ==
    /\ Len(onEventCalls) <= 1
    /\ ~Returned => onEventCalls = << >>
    /\ (Returned /\ result.err # << >>) => onEventCalls = << >>
    /\ (Returned /\ result.event # << >>) =>
          /\ result.err = << >>
          /\ onEventCalls = IF opts.OnEvent THEN result.event ELSE << >>

C17_Witness ==
    /\ Returned
    /\ ~opts.OnEvent
    /\ result.event # << >>
    /\ onEventCalls = << >>

\* The wait ended by the deadline: the context's error is the expired
\* deadline, the stream was open and no reply had been read.
EndedByDeadline ==
    /\ Returned
    /\ Connected
    /\ ctxErr = "DeadlineExceeded"
    /\ DeliverableRead = << >>
    /\ readEnd \in { "none", "ctx" }

\* C18: a waiting run exits with code 3 exactly when the wait ended because
\* the deadline elapsed: a wait ended by the deadline exits with 3, and an
\* exit with 3 comes from an expired deadline.
C18_Exit3IffDeadline ==
    /\ EndedByDeadline => ListenExit(result) = exitTimeout
    /\ (Returned /\ ListenExit(result) = exitTimeout) =>
          ctxErr = "DeadlineExceeded"

\* run has returned.
Exited == run.pc = "exited"

\* The send succeeded and run reported the message as sent.
SendReported == run.sessionID # ""

\* C19: with --no-wait, once the send has succeeded and the message is
\* reported as sent, run has returned 0 and that report is its last one; no
\* signal handler is installed, ListenWithOptions is not called and no
\* request for the event stream is made.  Every message sent carries the
\* "[No reply expected]" hint exactly when --no-wait is given without
\* --no-hint.
C19_NoWaitExitsAfterSend ==
    /\ (flags.noWait /\ SendReported) =>
          /\ Exited
          /\ run.exit = << exitSuccess >>
          /\ run.out[Len(run.out)] = "MessageSent"
          /\ ~run.sigHandler
          /\ run.listenCalls = << >>
          /\ pc = "start" /\ requests = 0
    /\ \A i \in 1..Len(run.sent) :
          run.sent[i].message.hint <=> (flags.noWait /\ ~flags.noHint)

\* C19: a run with --no-wait has sent its message with the hint and returned.
C19_Witness ==
    /\ flags.noWait /\ ~flags.noHint
    /\ SendReported
    /\ Exited
    /\ Len(run.sent) = 1
    /\ run.sent[1].message.hint

\* Neither --sms nor --whatsapp, both of them, or an empty --msg.
InvalidMessageFlags ==
    \/ ~flags.sms /\ ~flags.whatsapp
    \/ flags.sms /\ flags.whatsapp
    \/ flags.msg = ""

\* run has loaded no configuration, sent nothing and opened no stream.
NoSideEffect ==
    /\ run.loads = 0
    /\ run.cfg = << >>
    /\ run.sent = << >>
    /\ run.listenCalls = << >>
    /\ pc = "start" /\ requests = 0

SendDone == run.sent # << >>

\* The send failed, or its response carries an empty session id.
SendUnusable ==
    \/ run.sendErr
    \/ run.resp = << >>
    \/ run.resp[1].SessionID = ""

\* C21: once the send has failed, or succeeded with an empty session id,
\* run has returned 4, ListenWithOptions is not called and no stream is
\* opened; ListenWithOptions is called at most once, after a send that
\* succeeded with a non-empty session id, with that session id.
C21_ListenOnlyWithSession ==
    /\ (SendDone /\ SendUnusable) =>
          /\ Exited
          /\ run.exit = << exitSendFailed >>
          /\ run.listenCalls = << >>
          /\ ~run.sigHandler
          /\ pc = "start" /\ requests = 0
    /\ Len(run.listenCalls) <= 1
    /\ \A i \in 1..Len(run.listenCalls) :
          /\ SendDone
          /\ ~SendUnusable
          /\ run.listenCalls[i].sessionID = run.resp[1].SessionID

\* C21: the send succeeded with an empty session id and run has returned.
C21_Witness ==
    /\ SendDone
    /\ ~run.sendErr
    /\ run.resp # << >>
    /\ run.resp[1].SessionID = ""
    /\ Exited

\* The ticker sends a tick in this step: into its channel, or directly to
\* the parked caller.
TickSent ==
    \/ reminderChan' > reminderChan
    \/ recv'.case = "tick" /\ recv.case # "tick"

\* C22: with a reminder interval d > 0 and OnReminder set, every tick the
\* ticker sends falls at a multiple of d after the start of the call,
\* however long the connection took.
C22_TicksFromCallStart ==
    [][TickSent => (now' - startTime) % opts.ReminderInterval = 0]_vars

\* Client.Do failed and the call has returned.
ConnectFailed == Returned /\ doErr # ""

\* No callback was invoked and no stream was read.
NoCallbackNoStream ==
    /\ result.event = << >>
    /\ onEventCalls = << >>
    /\ reminderCalls = 0
    /\ ~Connected
    /\ linesRead = 0

\* C23 as stated: a connection attempt that failed returns the timeout
\* error when the expired deadline failed it, the cancelled error when the
\* cancelled parent context failed it, and the connection-failed error when
\* anything else failed it; no callback is invoked.
C23_ConnectFailureByCause ==
    ConnectFailed =>
        /\ NoCallbackNoStream
        /\ result.err =
             << CASE doErr = "context deadline exceeded" -> ErrTimeout
                  [] doErr = "context canceled" -> ErrCancelled
                  [] OTHER -> ErrConnectionFailed(doErr) >>

\* C23, amended: the deadline runs from the start of the call and fails a
\* connection attempt it overtakes, which returns the timeout error; an
\* attempt failed by the cancelled parent context returns the cancelled
\* error; an attempt failed by anything else returns the connection-failed
\* error unless the context is done by the time the error is classified,
\* when it returns the context's error; no callback is invoked.
C23_ConnectFailureByContext ==
    ConnectFailed =>
        /\ NoCallbackNoStream
        /\ doErr = "context deadline exceeded" =>
              /\ result.err = << ErrTimeout >>
              /\ now - startTime >= opts.Timeout
        /\ doErr = "context canceled" =>
              /\ result.err = << ErrCancelled >>
              /\ parentCancelled
        /\ doErr \in DoFailures =>
              result.err =
                << IF ctxErr = "DeadlineExceeded" THEN ErrTimeout
                   ELSE IF parentCancelled THEN ErrCancelled
                   ELSE ErrConnectionFailed(doErr) >>

\* C23: the deadline expired while the connection was being made.
C23_Witness ==
    /\ ConnectFailed
    /\ doErr = "context deadline exceeded"
    /\ opts.Timeout > 0
    /\ result.err = << ErrTimeout >>

\* The call returned the timeout error, sent one request that got no
\* response, read no line and invoked no callback.
ImmediateTimeout ==
    /\ result = [event |-> << >>, err |-> << ErrTimeout >>]
    /\ status = 0
    /\ NoCallbackNoStream
    /\ tickerAt = -1

\* C24 as stated: a call with a timeout of zero or less, and a parent
\* context that is not cancelled, returns the timeout error without reading
\* a line and without invoking a callback.
C24_NonPositiveTimeout ==
    (Returned /\ opts.Timeout <= 0 /\ ~parentCancelled) => ImmediateTimeout

\* C24, amended: the same, for a call whose request could be created.
C24_NonPositiveTimeoutWithRequest ==
    (opts.Timeout <= 0 /\ ~parentCancelled /\ urlOK) =>
        /\ pc \in { "start", "do", "doFailed", "done" }
        /\ pc # "start" => ctxErr = "DeadlineExceeded"
        /\ Returned => ImmediateTimeout

\* C24: a call with a negative timeout and reminders configured has
\* returned after time has passed.
C24_Witness ==
    /\ Returned
    /\ opts.Timeout < 0
    /\ opts.OnEvent /\ opts.OnReminder /\ opts.ReminderInterval = 1
    /\ ~parentCancelled
    /\ urlOK
    /\ now > 0
    /\ result.err = << ErrTimeout >>

\* C25: under fair scheduling every call returns, and a wait loop that
\* selects with the deadline expired returns in that very step, also when a
\* reminder tick is ready.
C25_ReturnsAtDeadline ==
    /\ <>Returned
    /\ [][(pc = "select" /\ ctxErr = "DeadlineExceeded" /\ pc' # pc)
            => Returned']_vars

\* The call returned the timeout failure.
TimedOut ==
    /\ Returned
    /\ result.err # << >>
    /\ result.err[1].msg = "timeout waiting for response"

\* C26: the timeout failure a call returns carries the configured timeout:
\* the text of the error names opts.Timeout.
C26_TimeoutCarriesDuration ==
    TimedOut => result.err[1].detail = ToString(opts.Timeout)

\* What a reminder leaves alone: the reader, the channels, the context and
\* the resources of the call.
ReminderFrame ==
    UNCHANGED << readerVars, eventChan, errChan, ctxErr, parentCancelled,
                 result, tickerAt, tickerStopped, bodyClosed, connVars,
                 onEventCalls >>

\* C27: invoking OnReminder does not end the call and OnReminder's return
\* puts the wait loop back at its select, both with the reader, the
\* channels and the context unchanged; and a deliverable record read with
\* the context live, in a call that invoked OnReminder, is what the call
\* returns.
C27_ReminderNotTerminal ==
    /\ [][InvokesOnReminder => (pc' = "inReminder" /\ ReminderFrame)]_vars
    /\ [][(pc = "inReminder" /\ pc' # pc) =>
            (pc' = "select" /\ ReminderFrame /\ UNCHANGED cbVars)]_vars
    /\ []((Returned /\ Connected /\ readLive /\ reminderCalls > 0) =>
            result = [event |-> DeliverableRead, err |-> << >>])

\* A blank line, a comment line or an event: line.
IgnoredLine(l) == l.prefix \in { "", ":", "event:" }

\* C28: reading a blank line, a line beginning with ':' or a line beginning
\* with 'event:', whatever type it declares, publishes nothing, leaves the
\* reader reading and the call waiting; an event handed to the wait loop or
\* returned comes from a line beginning with 'data:'.
C28_OnlyDataYields ==
    /\ [][(ReadsLine /\ IgnoredLine(line')) => NothingPublished]_vars
    /\ []((eventChan # << >> \/ recv.case = "event" \/ result.event # << >>)
            => line.prefix = "data:")

\* C28: the reader has read an event: line of another type than "connected"
\* as its last line and the call is still waiting.
C28_Witness ==
    /\ linesRead = MaxLines
    /\ line = Line("event:", "message", NoPayload)
    /\ rpc = "scan"
    /\ pc = "parked"
    /\ Pending = 0
    /\ result = NoResult

C30_OneRequest ==
    /\ [](requests <= 1)
    /\ [][requests' # requests =>
            (pc = "start" /\ requests = 0 /\ requests' = 1)]_vars
    /\ [](Returned => requests = IF urlOK THEN 1 ELSE 0)

\* C30: a call whose stream failed with a read error has returned.
C30_Witness ==
    /\ Returned
    /\ result.err = << ScanReset >>
    /\ linesRead > 0
    /\ requests = 1

\* C31: no step of a call changes the Listener's BaseURL and APIKey; every
\* call of a sequence starts with channels, ticker and counters of its own
\* and a context that is done only if the caller's context is; and what a
\* call returns comes from its own stream and status, whatever the earlier
\* call returned: a returned event is the deliverable
\* record this call read, OnEvent is invoked with it alone, and a call that
\* fails returns no event and invokes no OnEvent.
C31_StatelessBetweenCalls ==
    /\ [][listener' = listener]_vars
    /\ [](pc = "start" =>
            /\ eventChan = << >> /\ errChan = << >> /\ reminderChan = 0
            /\ ctxErr = (IF parentCancelled THEN "Canceled" ELSE "none")
            /\ tickerAt = -1 /\ rpc = "notstarted"
            /\ requests = 0 /\ onEventCalls = << >> /\ reminderCalls = 0
            /\ result = NoResult)
    /\ []((Returned /\ result.event # << >>) =>
            /\ DeliverableData(line)
            /\ result.event = << line.data.ev >>
            /\ onEventCalls = result.event)
    /\ []((Returned /\ result.err # << >>) =>
            /\ result.event = << >>
            /\ onEventCalls = << >>)

\* C31: the second call on the Listener has returned another event than
\* the first.
C31_Witness ==
    /\ calls = 1
    /\ Returned
    /\ prev.event = << Event("message", "web", "yes") >>
    /\ result.event = << Event("message", "sms", "no") >>
    /\ requests = 1

\* C32: a waiting run that was interrupted before the deadline, whose
\* stream was opened with status 200, carried no response and was ended by
\* nothing but the cancellation, exits with code 0 and has reported no
\* error.
C32_InterruptExitsZero ==
    (/\ run.pc = "exited"
     /\ run.sigHandler
     /\ Printed("Cancelled")
     /\ parentCancelled
     /\ ctxErr = "Canceled"
     /\ status = StatusOK
     /\ onEventCalls = << >>
     /\ ~DeliverableData(line)
     /\ readEnd \in { "none", "ctx" })
    => (run.exit = << exitSuccess >> /\ "Error" \notin Emitted)

\* C33: a waiting run has emitted at most one of the reports Response,
\* Timeout, Error and Cancelled.
C33_OneTerminalReport ==
    run.sigHandler => Cardinality(Emitted) <= 1

\* C34: OnReminder is invoked only by a step that leaves the call inside
\* the wait loop with no result; no step invokes it once OnEvent has been
\* invoked or once the call has returned; and a call that has returned
\* after creating the ticker has stopped it.
C34_NoReminderAfterTerminal ==
    /\ [][InvokesOnReminder =>
            (/\ onEventCalls = << >> /\ ~Returned
             /\ pc' = "inReminder" /\ result' = NoResult
             /\ onEventCalls' = << >>)]_vars
    /\ [][(onEventCalls # << >> \/ Returned) =>
            reminderCalls' = reminderCalls]_vars
    /\ []((Returned /\ tickerAt >= 0) => tickerStopped)

\* C34: a call has returned an event after a reminder, with a tick still
\* waiting in the ticker's channel, and has stopped the ticker.
C34_Witness ==
    /\ Returned
    /\ result.event # << >>
    /\ onEventCalls # << >>
    /\ reminderCalls >= 1
    /\ reminderChan = 1
    /\ tickerStopped

\* The text the reminder interval is read from: the --reminder flag when
\* given, else the reminder_interval of the config file, else 15m.
Resolved(flag, file) ==
    IF flag # "" THEN flag ELSE IF file # "" THEN file ELSE "15m"

\* C35: the reminder interval handed to ListenWithOptions is the duration
\* of the --reminder flag when given, else of the config file's
\* reminder_interval, else of 15m; when it is zero or less no ticker is
\* created and OnReminder is never invoked during the wait; and when the
\* text is no duration run has returned exit code 1 without sending a
\* message or opening the stream.
C35_ReminderResolution ==
    /\ run.listenCalls # << >> =>
          /\ run.file # << >>
          /\ ParseDuration(Resolved(flags.reminder, run.file[1]))
               = << run.listenCalls[1].ReminderInterval >>
          /\ opts.ReminderInterval = run.listenCalls[1].ReminderInterval
          /\ (opts.ReminderInterval <= 0 =>
                 (reminderCalls = 0 /\ tickerAt = -1 /\ reminderChan = 0))
    /\ (/\ run.file # << >>
        /\ ParseDuration(Resolved(flags.reminder, run.file[1])) = << >>)
       => /\ run.pc = "exited"
          /\ run.exit = << exitBadArgs >>
          /\ run.sent = << >>
          /\ run.listenCalls = << >>
          /\ pc = "start"

\* C35: a run whose --reminder 0 overrode a config file asking for
\* reminders has waited until the deadline without a reminder.
C35_Witness ==
    /\ flags.reminder = "0"
    /\ run.file = << "2m" >>
    /\ run.pc = "exited"
    /\ run.exit = << exitTimeout >>
    /\ now >= 2
    /\ reminderCalls = 0

\* C36: the step on which the scanner meets a line longer than its maximum
\* token size does not run the loop body on it (the line is neither counted
\* as read or skipped nor decoded, and nothing is sent on eventChan), sends
\* the scanner's "token too long" error on errChan and ends the reader; no
\* event is delivered by a call whose stream ended so, and a call that
\* returns with neither the deadline expired nor the parent context
\* cancelled returns that error.
C36_LongLineEndsCall ==
    /\ [][(readEnd' = "toolong" /\ readEnd # "toolong") =>
            /\ rpc = "scan" /\ rpc' = "done"
            /\ line' = line /\ linesRead' = linesRead /\ skipped' = skipped
            /\ eventChan' = eventChan /\ onEventCalls' = onEventCalls
            /\ IF pc = "parked"
               THEN /\ recv' = [case |-> "err", val |-> << ScanTooLong >>]
                    /\ errChan' = errChan
               ELSE errChan' = << ScanTooLong >>]_vars
    /\ [](readEnd = "toolong" =>
            /\ eventChan = << >>
            /\ onEventCalls = << >>
            /\ Returned => (result.event = << >> /\ result.err # << >>))
    /\ []((LiveAtReturn /\ readEnd = "toolong") =>
            result = [event |-> << >>, err |-> << ScanTooLong >>])

\* C36: a call has returned the scanner's error with the context live,
\* after a malformed data: line was skipped.
C36_Witness ==
    /\ LiveAtReturn
    /\ readEnd = "toolong"
    /\ skipped >= 1
    /\ Malformed(line)
    /\ result.err = << ScanTooLong >>

\* C37: once ValidateKey has returned for a request that completed, it has
\* returned an error exactly when the status of the response is 401.
C37_ErrorOnlyOn401 ==
    (vk.returned # << >> /\ vk.status # 0) =>
        (vk.returned[1] # << >> <=> vk.status = StatusUnauthorized)

====
